---- MODULE Spec2Model ----
(***************************************************************************)
(* A model of src/soukan_app.py: the correlation / partial-correlation /   *)
(* regression dashboard.                                                   *)
(*                                                                         *)
(* Numbers.  A Python float is modelled as a fixed-point number: a record  *)
(* [k |-> "num", v |-> n] stands for n / Scale; k = "nan" is NaN and       *)
(* k = "inf" an infinity of sign v.  Every arithmetic step of the code is  *)
(* one fixed-point step, truncated towards zero, and NaN propagates as     *)
(* IEEE-754 has it.                                                        *)
(*                                                                         *)
(* Data.  A DataFrame is a sequence of rows, a row a function from the     *)
(* column names to a cell; a cell is a small integer or NA (missing).      *)
(***************************************************************************)
EXTENDS Integers, Sequences, FiniteSets, TLC

VARIABLES
    mode,        \* which entry point runs: "call" (the function alone), "main", "load"
    pc,          \* the position in that entry point
    df,          \* the DataFrame: a sequence of rows
    numeric,     \* df_numeric.columns: the columns select_dtypes keeps
    args,        \* the arguments of the call of calculate_partial_correlation
    ret,         \* what that call returned (or raised)
    corr_matrix, \* Tab 1: df_numeric.corr()
    tab2,        \* Tab 2: the selections and what the block showed
    tab3,        \* Tab 3: the selections and what the block showed
    msgs,        \* the warnings, errors and diagnoses the run has shown
    file,        \* the uploaded file: its lines, and the stream's read position
    loaded       \* the loader's outcome

vars == <<mode, pc, df, numeric, args, ret, corr_matrix, tab2, tab3, msgs, file, loaded>>

(***************************************************************************)
(* Bounds of the model.                                                    *)
(***************************************************************************)
MaxRows == 3          \* rows of a frame in a run of main up to Tab 2
RegMaxRows == 2       \* rows of a frame in a full run of main
Scale == 10000        \* fixed-point units per 1.0
MaxLines == 3         \* lines of an uploaded file
ChunkLines == 2       \* lines the text decoder takes from the stream at a time

\* The function alone is exercised on frames of one more row: with 0/1 cells
\* three columns can be pairwise uncorrelated only from four rows on.
CallMaxRows == MaxRows + 1

(***************************************************************************)
(* Cells, rows, datasets.                                                  *)
(***************************************************************************)
NA == -1
Vals == {0, 1}
Cells == Vals \cup {NA}
None == "None"

\* The columns of the DataFrame handed to calculate_partial_correlation when
\* the function is exercised alone: "d" is a column the call never names.
CallCols == {"a", "b", "c", "d"}
\* The columns of an uploaded file in a run of main.
MainCols == {"a", "b", "c"}
\* The cells in the order used to number the rows.
CellOrder == <<NA, 0, 1>>
RowKinds == 0..26

\* Row number k of the three-column frame (k read in base 3, one digit a column).
RowOf(k) == [a |-> CellOrder[(k % 3) + 1],
             b |-> CellOrder[((k \div 3) % 3) + 1],
             c |-> CellOrder[((k \div 9) % 3) + 1]]

\* A row of the four-column frame: r with cell v in column "d".
WithD(r, v) == [c \in CallCols |-> IF c = "d" THEN v ELSE r[c]]

\* Each dataset is enumerated once up to the order of its rows (no statistic
\* of the program depends on the row order): row numbers in nondecreasing order.
NonDecreasing(ks) == \A i \in 1..(Len(ks) - 1) : ks[i] <= ks[i + 1]

(***************************************************************************)
(* Fixed-point floats.                                                     *)
(***************************************************************************)
F(k) == [k |-> "num", v |-> k]
NaN == [k |-> "nan", v |-> 0]
Inf(sign) == [k |-> "inf", v |-> sign]
\* The comparison p_corr == np.nan, which is False for every float: the slip
\* that np.isnan(p_corr) on line 122 avoids.
EqualsNan(x) == FALSE
\* np.isnan
isnan(x) == x.k = "nan"
One == F(Scale)

Abs(n) == IF n < 0 THEN -n ELSE n
Sgn(n) == IF n < 0 THEN -1 ELSE IF n > 0 THEN 1 ELSE 0
\* integer division truncated towards zero
TDiv(a, b) == Sgn(a) * Sgn(b) * (Abs(a) \div Abs(b))

RECURSIVE Gcd(_, _)
Gcd(a, b) == IF b = 0 THEN a ELSE Gcd(b, a % b)

\* floor of the square root of n >= 0, by bisection on lo..hi
RECURSIVE ISqrtIn(_, _, _)
ISqrtIn(n, lo, hi) ==
    IF lo >= hi THEN lo
    ELSE LET mid == (lo + hi + 1) \div 2
         IN  IF mid <= n \div mid THEN ISqrtIn(n, mid, hi) ELSE ISqrtIn(n, lo, mid - 1)
\* (46340 is the largest root of a 32-bit integer)
ISqrt(n) == IF n <= 0 THEN 0 ELSE ISqrtIn(n, 1, IF n > 46340 THEN 46340 ELSE n)

\* The operations below are defined on finite numbers and NaN; the code never
\* computes with an infinity (see FDiv).
FSub(x, y) == IF x.k # "num" \/ y.k # "num" THEN NaN ELSE F(x.v - y.v)
FMul(x, y) == IF x.k # "num" \/ y.k # "num" THEN NaN ELSE F(TDiv(x.v * y.v, Scale))
FSqrt(x) == IF x.k # "num" \/ x.v < 0 THEN NaN ELSE F(ISqrt(x.v * Scale))
\* numpy float64 division: x / 0 is an infinity (0 / 0 is NaN), never an exception
FDiv(x, y) ==
    IF x.k # "num" \/ y.k # "num" THEN NaN
    ELSE IF y.v = 0 THEN (IF x.v = 0 THEN NaN ELSE Inf(Sgn(x.v)))
    ELSE F(TDiv(x.v * Scale, y.v))
FAbs(x) == IF x.k = "num" THEN F(Abs(x.v)) ELSE IF x.k = "inf" THEN Inf(1) ELSE NaN
\* Python's x > y and x < y: False whenever an operand is NaN
FGt(x, y) == x.k = "num" /\ y.k = "num" /\ x.v > y.v
FLt(x, y) == x.k = "num" /\ y.k = "num" /\ x.v < y.v
FEq(x, y) == x.k = "num" /\ y.k = "num" /\ x.v = y.v

(***************************************************************************)
(* pandas: column selection, dropna, Pearson correlation.                  *)
(***************************************************************************)
RECURSIVE SumSeq(_)
SumSeq(s) == IF s = <<>> THEN 0 ELSE Head(s) + SumSeq(Tail(s))

\* DataFrame.dropna(subset=cols): the rows with no missing cell among cols
RECURSIVE dropna(_, _)
dropna(t, cols) ==
    IF t = <<>> THEN <<>>
    ELSE IF \A c \in cols : Head(t)[c] # NA
         THEN <<Head(t)>> \o dropna(Tail(t), cols)
         ELSE dropna(Tail(t), cols)

\* df[[x, y, covar]]: the frame restricted to the named columns
Project(t, cols) == [i \in 1..Len(t) |-> [c \in cols |-> t[i][c]]]

\* The sums of columns x and y over the rows of u, scaled by n = len(u):
\* sxx = n^2 var(x), syy = n^2 var(y), sxy = n^2 cov(x, y).
Moments(u, x, y) ==
    LET n   == Len(u)
        sx  == SumSeq([i \in 1..n |-> u[i][x]])
        sy  == SumSeq([i \in 1..n |-> u[i][y]])
    IN  [n |-> n, sx |-> sx, sy |-> sy,
         sxx |-> (n * SumSeq([i \in 1..n |-> u[i][x] * u[i][x]])) - (sx * sx),
         syy |-> (n * SumSeq([i \in 1..n |-> u[i][y] * u[i][y]])) - (sy * sy),
         sxy |-> (n * SumSeq([i \in 1..n |-> u[i][x] * u[i][y]])) - (sx * sy)]

\* Pearson's r of columns x and y over the rows where both are present
\* (Series.corr and DataFrame.corr both delete pairwise): NaN when no row is
\* left or a column is constant on them, else cov / sqrt(var_x * var_y).
Pearson(t, x, y) ==
    LET m == Moments(dropna(t, {x, y}), x, y)
        g == Gcd(m.sxy * m.sxy, m.sxx * m.syy)
    IN  IF m.n = 0 \/ m.sxx = 0 \/ m.syy = 0 THEN NaN
        ELSE F(Sgn(m.sxy) * ISqrt(((Scale * Scale) * ((m.sxy * m.sxy) \div g))
                                  \div ((m.sxx * m.syy) \div g)))

(***************************************************************************)
(* calculate_partial_correlation (lines 18-36).                            *)
(***************************************************************************)
Return(p, raw) == [exc |-> "none", p |-> p, raw |-> raw]
Raise(e) == [exc |-> e, p |-> NaN, raw |-> NaN]
NoRet == [exc |-> "pending", p |-> NaN, raw |-> NaN]

\* line 23: temp_df = df[[x, y, covar]].dropna()
TempDf(t, x, y, covar) == dropna(Project(t, {x, y, covar}), {x, y, covar})

\* Line 24 with the threshold of a single correlation (two rows) in place of 3.
TooFewRowsForOneCorr(temp_df) == Len(temp_df) < 2

\* line 24: len(temp_df) < 3
TooFewRows(temp_df) == Len(temp_df) < 3

\* Line 30 with the operands of the subtraction exchanged.
NumeratorSwapped(r_xy, r_xz, r_yz) == FSub(FMul(r_xz, r_yz), r_xy)

\* line 30: numerator = r_xy - (r_xz * r_yz)
Numerator(r_xy, r_xz, r_yz) == FSub(r_xy, FMul(r_xz, r_yz))

\* Line 31 without the squares: np.sqrt((1 - r_xz) * (1 - r_yz)).
DenominatorUnsquared(r_xz, r_yz) ==
    FSqrt(FMul(FSub(One, r_xz), FSub(One, r_yz)))

\* line 31: denominator = np.sqrt((1 - r_xz**2) * (1 - r_yz**2))
Denominator(r_xz, r_yz) ==
    FSqrt(FMul(FSub(One, FMul(r_xz, r_xz)), FSub(One, FMul(r_yz, r_yz))))

\* line 33: denominator == 0 (False for NaN)
ZeroDenominator(denominator) == FEq(denominator, F(0))

\* lines 26-34, on a temp_df of three distinct columns
Partial(temp_df, x, y, covar) ==
    LET r_xy == Pearson(temp_df, x, y)
        r_xz == Pearson(temp_df, x, covar)
        r_yz == Pearson(temp_df, y, covar)
        numerator == Numerator(r_xy, r_xz, r_yz)
        denominator == Denominator(r_xz, r_yz)
    IN  IF ZeroDenominator(denominator) THEN Return(NaN, NaN)
        ELSE Return(FDiv(numerator, denominator), r_xy)

\* The body of the try block.  df[[x, y, covar]] raises KeyError for a label
\* that is no column; with a repeated label temp_df[label] is a DataFrame and
\* its .corr(...) raises (ValueError) once the row count has passed line 24.
TryBody(cols, t, x, y, covar) ==
    IF ~({x, y, covar} \subseteq cols) THEN Raise("KeyError")
    ELSE LET temp_df == TempDf(t, x, y, covar)
         IN  IF TooFewRows(temp_df) THEN Return(NaN, NaN)
             ELSE IF Cardinality({x, y, covar}) < 3 THEN Raise("ValueError")
             ELSE Partial(temp_df, x, y, covar)

\* lines 22, 35-36: the bare except turns every exception into (nan, nan)
calculate_partial_correlation(cols, t, x, y, covar) ==
    LET r == TryBody(cols, t, x, y, covar)
    IN  IF r.exc # "none" THEN Return(NaN, NaN) ELSE r

(***************************************************************************)
(* The function exercised alone, on a frame of columns a, b, c, d of at     *)
(* most CallMaxRows rows whose column d is filled in every row or empty in *)
(* every row, with argument triples that name three columns, repeat x as   *)
(* y, or name a label "q" that is no column.                               *)
(***************************************************************************)
ArgTriples == {<<"a", "b", "c">>, <<"a", "a", "c">>,
               <<"q", "b", "c">>, <<"a", "q", "c">>, <<"a", "b", "q">>}

NoTab2 == [tx |-> None, ty |-> None, tz |-> None, called |-> FALSE,
           cargs |-> <<>>, p_corr |-> NaN, raw_corr |-> NaN]
NoTab3 == [x_col |-> None, y_col |-> None, fitted |-> FALSE, n |-> 0,
           slope |-> NaN, intercept |-> NaN, r2 |-> NaN]
NoFile == [uploaded |-> FALSE, lines |-> <<>>, pos |-> 0]
NoLoad == [status |-> "pending", first |-> 0, last |-> 0]

InitCall ==
    /\ mode = "call" /\ pc = "ready"
    /\ \E n \in 0..CallMaxRows, dcell \in {NA, 0} :
          \E ks \in [1..n -> RowKinds] :
             /\ NonDecreasing(ks)
             /\ df = [i \in 1..n |-> WithD(RowOf(ks[i]), dcell)]
    /\ numeric = {} /\ args = <<>> /\ ret = NoRet
    /\ corr_matrix = <<>> /\ tab2 = NoTab2 /\ tab3 = NoTab3 /\ msgs = {}
    /\ file = NoFile /\ loaded = NoLoad

Call ==
    /\ mode = "call" /\ pc = "ready"
    /\ \E a \in ArgTriples :
          /\ args' = a
          /\ ret' = calculate_partial_correlation(CallCols, df, a[1], a[2], a[3])
    /\ pc' = "returned"
    /\ UNCHANGED <<mode, df, numeric, corr_matrix, tab2, tab3, msgs, file, loaded>>

NextCall == Call
SpecCall == InitCall /\ [][NextCall]_vars

(***************************************************************************)
(* main, from line 82 on: the frame has been read.                         *)
(***************************************************************************)
\* The dtypes a file may have: its first k columns are numeric.
NumericChoices == {{}, {"a"}, {"a", "b"}, {"a", "b", "c"}}

\* A text column holds text in every row (its cells play no part below).
TextCell == 0

\* Python truthiness of a selectbox's value: a column label is a non-empty
\* string, None is what the code assigns when there is no candidate.
Truthy(label) == label # None /\ label # ""

\* line 126: diff = abs(raw_corr - p_corr)
Diff(raw_corr, p_corr) == FAbs(FSub(raw_corr, p_corr))

\* lines 137-142: the diagnosis shown for diff
Diagnosis(diff) ==
    IF FGt(diff, F((3 * Scale) \div 10)) THEN {"spurious"}
    ELSE IF FLt(diff, F(Scale \div 10)) THEN {"robust"}
    ELSE {"partly"}

\* Line 114 filtering on tx alone: [c for c in df_numeric.columns if c != tx].
CandsNotX(cols, tx, ty) == cols \ {tx}

\* line 114: cands = [c for c in df_numeric.columns if c not in [tx, ty]]
Cands(cols, tx, ty) == cols \ {tx, ty}

\* Line 98 with DataFrame.cov() in place of DataFrame.corr(): the sample
\* covariance over the rows where both columns are present.
Cov(t, x, y) ==
    LET m == Moments(dropna(t, {x, y}), x, y)
    IN  IF m.n < 2 THEN NaN ELSE F(TDiv(m.sxy * Scale, m.n * (m.n - 1)))
CovMatrix(t, cols) == [i \in cols |-> [j \in cols |-> Cov(t, i, j)]]

\* line 98: df_numeric.corr()
Corr(t, cols) == [i \in cols |-> [j \in cols |-> Pearson(t, i, j)]]

InitMain(rows) ==
    /\ mode = "main" /\ pc = "select"
    /\ numeric \in NumericChoices
    /\ \E n \in 0..rows :
          \E ks \in [1..n -> RowKinds] :
             /\ NonDecreasing(ks)
             /\ \A i \in 1..n : \A c \in MainCols \ numeric : RowOf(ks[i])[c] = TextCell
             /\ df = [i \in 1..n |-> RowOf(ks[i])]
    /\ args = <<>> /\ ret = NoRet
    /\ corr_matrix = <<>> /\ tab2 = NoTab2 /\ tab3 = NoTab3 /\ msgs = {}
    /\ file = NoFile /\ loaded = NoLoad

\* lines 82-85
SelectNumeric ==
    /\ mode = "main" /\ pc = "select"
    /\ IF Cardinality(numeric) < 2
       THEN msgs' = msgs \cup {"need2"} /\ pc' = "stopped"
       ELSE msgs' = msgs /\ pc' = "tab1"
    /\ UNCHANGED <<mode, df, numeric, args, ret, corr_matrix, tab2, tab3, file, loaded>>

\* lines 96-104
Tab1 ==
    /\ mode = "main" /\ pc = "tab1"
    /\ corr_matrix' = Corr(Project(df, numeric), numeric)
    /\ pc' = "tab2"
    /\ UNCHANGED <<mode, df, numeric, args, ret, tab2, tab3, msgs, file, loaded>>

\* lines 117-142, for the selections tx, ty, tz
Tab2Block(tx, ty, tz) ==
    IF ~(Truthy(tx) /\ Truthy(ty) /\ Truthy(tz))
    THEN /\ tab2' = [NoTab2 EXCEPT !.tx = tx, !.ty = ty, !.tz = tz]
         /\ msgs' = msgs
    ELSE IF tx = ty
    THEN /\ tab2' = [NoTab2 EXCEPT !.tx = tx, !.ty = ty, !.tz = tz]
         /\ msgs' = msgs \cup {"xy_same"}
    ELSE LET r == calculate_partial_correlation(numeric, Project(df, numeric), tx, ty, tz)
         IN  /\ tab2' = [tx |-> tx, ty |-> ty, tz |-> tz, called |-> TRUE,
                         cargs |-> <<tx, ty, tz>>,
                         p_corr |-> r.p, raw_corr |-> r.raw]
             /\ msgs' = IF isnan(r.p) THEN msgs \cup {"calc_failed"}
                        ELSE msgs \cup {"result"} \cup Diagnosis(Diff(r.raw, r.p))

\* lines 107-144
Tab2 ==
    /\ mode = "main" /\ pc = "tab2"
    /\ IF Cardinality(numeric) >= 3
       THEN \E tx \in numeric, ty \in numeric :
               LET cands == Cands(numeric, tx, ty)
               IN  IF cands # {} THEN \E tz \in cands : Tab2Block(tx, ty, tz)
                   ELSE Tab2Block(tx, ty, None)
       ELSE tab2' = NoTab2 /\ msgs' = msgs \cup {"need3"}
    /\ pc' = "tab3"
    /\ UNCHANGED <<mode, df, numeric, args, ret, corr_matrix, tab3, file, loaded>>

(***************************************************************************)
(* Tab 3: statsmodels' add_constant and OLS on one predictor.              *)
(***************************************************************************)
\* sm.add_constant(col) (has_constant='skip'): no column of ones is added
\* when col already is a constant column, that is when all its values are
\* equal and not zero.
HasConstant(u, x) ==
    /\ Len(u) > 0
    /\ \A i \in 1..Len(u) : u[i][x] = u[1][x]
    /\ u[1][x] # 0

\* sm.OLS(y, [1, x]).fit() (pinv): the least-squares line, with slope 0 when
\* x does not vary; rsquared = 1 - ssr / centered_tss is NaN when y does not.
OLSFit(u, x, y) ==
    LET m == Moments(u, x, y)
        slope == IF m.sxx = 0 THEN 0 ELSE TDiv(m.sxy * Scale, m.sxx)
    IN  [slope |-> F(slope),
         intercept |-> F(TDiv((m.sy * Scale) - (slope * m.sx), m.n)),
         r2 |-> IF m.syy = 0 THEN NaN
                ELSE IF m.sxx = 0 THEN F(0)
                ELSE F(TDiv((Scale * m.sxy) * m.sxy, m.sxx * m.syy))]

\* lines 157-232, for the selections x_col # y_col
Regression(x_col, y_col) ==
    LET plot_df == dropna(df, {x_col, y_col})
        sel == [NoTab3 EXCEPT !.x_col = x_col, !.y_col = y_col, !.n = Len(plot_df)]
    IN  IF Len(plot_df) > 0
        THEN IF HasConstant(plot_df, x_col)
             \* X has one column: model.params.iloc[1] raises IndexError (line 163)
             THEN tab3' = sel /\ msgs' = msgs \cup {"IndexError"} /\ pc' = "crashed"
             ELSE LET fit == OLSFit(plot_df, x_col, y_col)
                  IN  /\ tab3' = [sel EXCEPT !.fitted = TRUE, !.slope = fit.slope,
                                            !.intercept = fit.intercept, !.r2 = fit.r2]
                      /\ msgs' = msgs \cup {"report"}
                      /\ pc' = "done"
        ELSE tab3' = sel /\ msgs' = msgs /\ pc' = "done"

\* lines 147-236 (Tab 4 only displays df: it is the tail of this step, not
\* reached when line 163 raises)
Tab3 ==
    /\ mode = "main" /\ pc = "tab3"
    /\ \E x_col \in numeric, y_col \in numeric :
          IF x_col = y_col
          THEN /\ tab3' = [NoTab3 EXCEPT !.x_col = x_col, !.y_col = y_col]
               /\ msgs' = msgs \cup {"reg_xy_same"}
               /\ pc' = "done"
          ELSE Regression(x_col, y_col)
    /\ UNCHANGED <<mode, df, numeric, args, ret, corr_matrix, tab2, file, loaded>>

\* A run of main on a file of at most RegMaxRows rows.
Init == InitMain(RegMaxRows)
Next == SelectNumeric \/ Tab1 \/ Tab2 \/ Tab3
Spec == Init /\ [][Next]_vars

\* The run of main up to the end of the Tab 2 block.  Tab3 leaves corr_matrix
\* and tab2 unchanged and only adds its own messages.
NextTab2 == SelectNumeric \/ Tab1 \/ Tab2
InitTab2 == InitMain(MaxRows)
SpecTab2 == InitTab2 /\ [][NextTab2]_vars

(***************************************************************************)
(* The loader (lines 72-80).  An uploaded file is a binary stream: a       *)
(* sequence of lines and a read position that only a seek would move back. *)
(* A line is "ascii" (decodable as utf-8 and as shift-jis), "utf8" (utf-8  *)
(* only), "sjis" (shift-jis only) or "bad" (neither).                      *)
(***************************************************************************)
LineKinds == {"ascii", "utf8", "sjis", "bad"}

Decodable(kind, encoding) ==
    \/ kind = "ascii"
    \/ kind = "utf8" /\ encoding = "utf-8-sig"
    \/ kind = "sjis" /\ encoding = "shift-jis"

Min(a, b) == IF a < b THEN a ELSE b

\* pd.read_csv(stream, encoding=...): the text wrapper takes the stream
\* ChunkLines lines at a time from the current position and decodes them.
\* A line that does not decode raises UnicodeDecodeError, with the stream
\* left after the chunk that held it; a stream with nothing left to read
\* raises EmptyDataError; otherwise the lines from the position to the end
\* are the frame.  read_csv never seeks.
read_csv(f, encoding) ==
    LET len == Len(f.lines)
        bad == {i \in (f.pos + 1)..len : ~Decodable(f.lines[i], encoding)}
    IN  IF bad # {}
        THEN LET firstBad == CHOOSE i \in bad : \A j \in bad : i <= j
                 chunks == ((firstBad - f.pos) + (ChunkLines - 1)) \div ChunkLines
             IN  [exc |-> "UnicodeDecodeError", first |-> 0, last |-> 0,
                  pos |-> Min(len, f.pos + (chunks * ChunkLines))]
        ELSE IF f.pos >= len
        THEN [exc |-> "EmptyDataError", first |-> 0, last |-> 0, pos |-> len]
        ELSE [exc |-> "none", first |-> f.pos + 1, last |-> len, pos |-> len]

InitLoad ==
    /\ mode = "load" /\ pc = "read1"
    /\ \E up \in BOOLEAN, n \in 0..MaxLines :
          \E ls \in [1..n -> LineKinds] :
             /\ ~up => n = 0
             /\ file = [uploaded |-> up, lines |-> ls, pos |-> 0]
    /\ df = <<>> /\ numeric = {} /\ args = <<>> /\ ret = NoRet
    /\ corr_matrix = <<>> /\ tab2 = NoTab2 /\ tab3 = NoTab3 /\ msgs = {}
    /\ loaded = NoLoad

\* lines 72-74 and 78-80: the first read, or the sample data without an upload
ReadFirst ==
    /\ mode = "load" /\ pc = "read1"
    /\ IF file.uploaded
       THEN LET r == read_csv(file, "utf-8-sig")
            IN  /\ file' = [file EXCEPT !.pos = r.pos]
                /\ IF r.exc = "none"
                   THEN /\ loaded' = [status |-> "ok", first |-> r.first, last |-> r.last]
                        /\ pc' = "loaded"
                   ELSE loaded' = loaded /\ pc' = "read2"
                /\ msgs' = msgs
       ELSE /\ loaded' = [status |-> "sample", first |-> 0, last |-> 0]
            /\ msgs' = msgs \cup {"sample_mode"}
            /\ pc' = "loaded"
            /\ file' = file
    /\ UNCHANGED <<mode, df, numeric, args, ret, corr_matrix, tab2, tab3>>

\* lines 75-77: the second read, of the same stream
ReadSecond ==
    /\ mode = "load" /\ pc = "read2"
    /\ LET r == read_csv(file, "shift-jis")
       IN  /\ file' = [file EXCEPT !.pos = r.pos]
           /\ IF r.exc = "none"
              THEN /\ loaded' = [status |-> "ok", first |-> r.first, last |-> r.last]
                   /\ msgs' = msgs
                   /\ pc' = "loaded"
              ELSE /\ loaded' = [status |-> "error", first |-> 0, last |-> 0]
                   /\ msgs' = msgs \cup {"read_error"}
                   /\ pc' = "stopped"
    /\ UNCHANGED <<mode, df, numeric, args, ret, corr_matrix, tab2, tab3>>

NextLoad == ReadFirst \/ ReadSecond
SpecLoad == InitLoad /\ [][NextLoad]_vars

(***************************************************************************)
(* Properties of calculate_partial_correlation, stated on SpecCall.        *)
(***************************************************************************)
Returned == mode = "call" /\ pc = "returned"
CallNames == {args[1], args[2], args[3]}
\* The call names three distinct columns of the frame.
DistinctColumns == CallNames \subseteq CallCols /\ Cardinality(CallNames) = 3
\* The rows of df with a value in every column of cols, counted on df itself.
CompleteRows(cols) == {i \in 1..Len(df) : \A c \in cols : df[i][c] # NA}
\* Column c takes two different values on the rows of the set rows.
Varies(c, rows) == \E i \in rows, j \in rows : df[i][c] # df[j][c]
\* The rows that are complete in the three columns of the call, and the
\* correlations of the covariate with x and with y on them.
CallRows == dropna(df, CallNames)
R_xz == Pearson(CallRows, args[1], args[3])
R_yz == Pearson(CallRows, args[2], args[3])
Perfect(r) == r.k = "num" /\ Abs(r.v) = Scale
\* df with every cell of column d filled in.
FilledD == [i \in 1..Len(df) |-> [df[i] EXCEPT !["d"] = 0]]

\* C1: a call that names a label which is not a column of the dataset, or
\* that names the same column as x and as y, fails with InvalidColumnError
\* (the code raises nothing and returns (nan, nan): TLC refutes this).
C1_InvalidColumnError ==
    (Returned /\ (~(CallNames \subseteq CallCols) \/ args[1] = args[2]))
        => ret.exc = "InvalidColumnError"

\* A call with x = y, or with a label that is no column, that has returned
\* (nan, nan) without an exception.
C1_SilentNaN ==
    /\ Returned
    /\ ~(CallNames \subseteq CallCols) \/ args[1] = args[2]
    /\ ret = Return(NaN, NaN)

\* C3: when fewer than 3 rows have a value in each of x, y and z, the call
\* returns (nan, nan) and raises nothing; rows that miss a value only in
\* another column are kept and counted: the result is the one obtained with
\* that column filled in, and with 3 or more complete rows on which the three
\* columns vary and z is not perfectly correlated with x or y, the partial
\* correlation is a number.
C3_FewerThanThreeRows ==
    (Returned /\ DistinctColumns) =>
        LET rows == CompleteRows(CallNames)
        IN  /\ Cardinality(rows) < 3 => ret = Return(NaN, NaN)
            /\ ret = calculate_partial_correlation(CallCols, FilledD,
                                                   args[1], args[2], args[3])
            /\ (/\ Cardinality(rows) >= 3
                /\ \A c \in CallNames : Varies(c, rows)
                /\ ~Perfect(R_xz) /\ ~Perfect(R_yz)) => ret.p.k = "num"

\* A frame of 3 or more rows of which fewer than 3 are complete in x, y, z,
\* with column d empty, on which the call returned (nan, nan).
C3_RowsDropped ==
    /\ Returned /\ DistinctColumns
    /\ Len(df) >= 3
    /\ Cardinality(CompleteRows(CallNames)) = 2
    /\ \A i \in 1..Len(df) : df[i]["d"] = NA
    /\ ret = Return(NaN, NaN)

\* C4: with 3 or more complete rows, when z is perfectly correlated with x or
\* with y (r_xz or r_yz is 1 or -1, the denominator is zero) the call returns
\* a NaN partial correlation and no exception is raised inside it.
C4_ZeroDenominator ==
    (/\ Returned /\ DistinctColumns
     /\ Cardinality(CompleteRows(CallNames)) >= 3
     /\ Perfect(R_xz) \/ Perfect(R_yz))
        => /\ ret.p.k = "nan"
           /\ ret.exc = "none"
           /\ TryBody(CallCols, df, args[1], args[2], args[3]).exc = "none"

\* A call on 3 or more complete rows with r_xz = -1 and y not perfectly
\* correlated with z, which returned NaN.
C4_PerfectCovariate ==
    /\ Returned /\ DistinctColumns
    /\ Cardinality(CompleteRows(CallNames)) >= 3
    /\ R_xz = F(-Scale)
    /\ R_yz.k = "num" /\ ~Perfect(R_yz)
    /\ ret.p.k = "nan"

\* C5: with 3 or more complete rows, when r_xz = 0 and r_yz = 0 the partial
\* correlation returned is a number and equals the raw correlation returned
\* with it.
C5_UncorrelatedCovariate ==
    (/\ Returned /\ DistinctColumns
     /\ Cardinality(CompleteRows(CallNames)) >= 3
     /\ R_xz = F(0) /\ R_yz = F(0))
        => /\ ret.exc = "none"
           /\ ret.p.k = "num"
           /\ ret.p = ret.raw

\* A call with r_xz = 0 and r_yz = 0 that returned a nonzero correlation.
C5_NonzeroRaw ==
    /\ Returned /\ DistinctColumns
    /\ Cardinality(CompleteRows(CallNames)) >= 3
    /\ R_xz = F(0) /\ R_yz = F(0)
    /\ ret.raw.k = "num" /\ ret.raw.v # 0
    /\ ret.p = ret.raw

(***************************************************************************)
(* Properties of main up to Tab 2, stated on SpecTab2.                     *)
(***************************************************************************)
Tab1Done == mode = "main" /\ pc \in {"tab2", "tab3", "done", "crashed"}
Tab2Done == mode = "main" /\ pc \in {"tab3", "done", "crashed"}
Diagnoses == {"spurious", "partly", "robust"}
Tab2Output == {"result", "calc_failed"} \cup Diagnoses

\* C6: the matrix shown in Tab 1 is symmetric, and its diagonal entry is 1.0
\* for every numeric column that takes two different values.
C6_MatrixSymmetric ==
    Tab1Done =>
        \A i \in numeric, j \in numeric :
            /\ corr_matrix[i][j] = corr_matrix[j][i]
            /\ Varies(i, CompleteRows({i})) => corr_matrix[i][i] = One

\* A matrix with an entry off the diagonal strictly between 0 and 1 in
\* absolute value, computed on a frame with a missing cell in a numeric column.
C6_ProperEntry ==
    /\ Tab1Done
    /\ \E i \in numeric, j \in numeric :
          /\ i # j
          /\ corr_matrix[i][j].k = "num"
          /\ Abs(corr_matrix[i][j].v) \in 1..(Scale - 1)
    /\ \E k \in numeric : CompleteRows({k}) # 1..Len(df)

\* C7: Tab 2 calls calculate_partial_correlation only with three pairwise
\* distinct names of numeric columns, of a dataset with 3 or more numeric
\* columns; when x and y are the same column, or there are fewer than 3
\* numeric columns, a warning is shown and no result is computed or shown.
C7_DistinctNamesOnly ==
    /\ (mode = "main" /\ tab2.called) =>
          /\ Cardinality(numeric) >= 3
          /\ Len(tab2.cargs) = 3
          /\ \A k \in 1..3 : tab2.cargs[k] \in numeric
          /\ Cardinality({tab2.cargs[k] : k \in 1..3}) = 3
    /\ (Tab2Done /\ (Cardinality(numeric) < 3 \/ tab2.tx = tab2.ty)) =>
          /\ ~tab2.called
          /\ msgs \cap Tab2Output = {}
          /\ IF Cardinality(numeric) < 3 THEN "need3" \in msgs ELSE "xy_same" \in msgs
    /\ (mode = "main" /\ pc = "stopped") =>
          /\ ~tab2.called
          /\ msgs \cap Tab2Output = {}
          /\ "need2" \in msgs

\* A run in which Tab 2 has made the call and shown a result.
C7_CallMade ==
    /\ Tab2Done
    /\ tab2.called
    /\ "result" \in msgs

\* C8: exactly one diagnosis is shown with a result, and "likely spurious" is
\* shown only when the partial correlation is smaller in absolute value than
\* the raw correlation (the code decides on |raw - partial| alone: TLC
\* refutes this).
C8_SpuriousOnlyWhenWeaker ==
    (mode = "main" /\ "result" \in msgs) =>
        /\ Cardinality(msgs \cap Diagnoses) = 1
        /\ "spurious" \in msgs => Abs(tab2.p_corr.v) < Abs(tab2.raw_corr.v)

\* A result shown as "likely spurious" whose partial correlation is larger in
\* absolute value than the raw correlation.
C8_SpuriousButStronger ==
    /\ mode = "main" /\ "result" \in msgs
    /\ "spurious" \in msgs
    /\ Abs(tab2.p_corr.v) > Abs(tab2.raw_corr.v)

\* C10: whenever the partial correlation returned to Tab 2 is not NaN the raw
\* correlation returned with it is a number, so that a result is shown and
\* classified only with both correlations defined.
C10_RawDefined ==
    (mode = "main" /\ tab2.called) =>
        /\ tab2.p_corr.k # "nan" => tab2.raw_corr.k = "num"
        /\ "result" \in msgs => (tab2.p_corr.k = "num" /\ tab2.raw_corr.k = "num")
        /\ "result" \in msgs \/ "calc_failed" \in msgs

\* A run in which a result was shown, with partial and raw correlations that
\* are numbers and differ.
C10_ResultShown ==
    /\ mode = "main" /\ tab2.called
    /\ "result" \in msgs
    /\ tab2.p_corr.k = "num" /\ tab2.raw_corr.k = "num"
    /\ tab2.p_corr.v # tab2.raw_corr.v

(***************************************************************************)
(* Property of Tab 3, stated on Spec.                                      *)
(***************************************************************************)
Tab3Done == mode = "main" /\ pc \in {"done", "crashed"}

\* C2: with fewer than 3 rows complete in x and y (one predictor) the
\* regression fails with InsufficientDataError and shows no slope, intercept,
\* R2 or p-value (the code fits whenever one row is left: TLC refutes this).
C2_InsufficientData ==
    (/\ Tab3Done
     /\ tab3.x_col # tab3.y_col
     /\ Cardinality(CompleteRows({tab3.x_col, tab3.y_col})) < 3)
        => /\ "InsufficientDataError" \in msgs
           /\ ~tab3.fitted
           /\ "report" \notin msgs

\* A regression fitted and reported on exactly 2 complete rows.
C2_FittedOnTwoRows ==
    /\ Tab3Done
    /\ tab3.x_col # tab3.y_col
    /\ Cardinality(CompleteRows({tab3.x_col, tab3.y_col})) = 2
    /\ tab3.fitted /\ "report" \in msgs
    /\ tab3.slope.k = "num"

(***************************************************************************)
(* Property of the loader, stated on SpecLoad.                             *)
(***************************************************************************)
LoadDone == mode = "load" /\ pc \in {"loaded", "stopped"}
\* Every line of the file decodes in the encoding.
ValidIn(encoding) == \A i \in 1..Len(file.lines) : Decodable(file.lines[i], encoding)

\* C9: for a non-empty upload that is not valid utf-8 but is valid shift-jis
\* the loader reads the whole file, from its first line to its last; the
\* read-error message is shown only for a file valid in neither encoding
\* (the second read starts where the first stopped: TLC refutes this).
C9_FallbackReadsWholeFile ==
    (LoadDone /\ file.uploaded /\ Len(file.lines) > 0) =>
        /\ (~ValidIn("utf-8-sig") /\ ValidIn("shift-jis")) =>
              loaded = [status |-> "ok", first |-> 1, last |-> Len(file.lines)]
        /\ "read_error" \in msgs => (~ValidIn("utf-8-sig") /\ ~ValidIn("shift-jis"))

\* A valid shift-jis file for which the read-error message was shown.
C9_ShiftJisRejected ==
    /\ LoadDone /\ file.uploaded
    /\ ValidIn("shift-jis")
    /\ Len(file.lines) > 0
    /\ "read_error" \in msgs

====
